---- MODULE Spec2Model ----
(***************************************************************************)
(* Model of the MNIST serving code of this repository:                     *)
(*   - the FastAPI service, src/src/api/main.py (specification Spec):      *)
(*     startup_event, load_model_from_registry, health_check, predict;     *)
(*   - the Flask application, src/app.py (specification FlaskSpec):        *)
(*     __main__, load_model, predict, health.                              *)
(* The external collaborators (MLflow registry and tracking service, the   *)
(* filesystem, the Keras model, PIL) are modelled by the outcomes their    *)
(* calls can have, chosen nondeterministically at the call.                *)
(***************************************************************************)
EXTENDS Integers, Sequences, FiniteSets, TLC

(* ------------------------------ bounds --------------------------------- *)
\* HTTP requests handled by the FastAPI service in one run
MaxRequests == 2
\* request-handling threads of the Flask development server
NumThreads == 2
\* POST /predict requests the Flask application receives in one run
MaxFlaskRequests == 2
NumClients == 3

(* ----------------------------- values ---------------------------------- *)
\* main.py:54  model: Optional[Any] = None
None == [src |-> "none", id |-> ""]
\* main.py:55  model_version: str = "unknown"   (a tag is <<prefix, rest>>,
\* read "prefix:rest", or "rest" alone when the prefix is empty)
Unknown == <<"", "unknown">>
\* a loaded model object, identified by the source it came from
Handle(src, id) == [src |-> src, id |-> id]

\* config.py:36  the default SECRET_KEY
DevSecret == "dev-secret-key-change-in-production"

\* registry versions that can sit at the configured stage
Versions == {"1", "2"}
\* runs of the experiment and their metrics.test_accuracy (percent)
RunIds == {"r1", "r2"}
TestAccuracy == [r \in RunIds |-> IF r = "r1" THEN 97 ELSE 99]
\* a local path is the sequence of its components
LocalPaths == {<<"app", "saved_model">>}

\* str.lower() on the ENVIRONMENT values in use
Lower(s) == IF s \in {"Production", "PRODUCTION"} THEN "production" ELSE s

\* a resolver that tags the local model with the first component of the path
PathFirstComponent(p) == p[1]

\* pathlib.Path.name: the final component
PathName(p) == p[Len(p)]

(* --------------------------- configuration ------------------------------ *)
\* config.py:44-47
is_production(c) == Lower(c.ENVIRONMENT) = "production"

\* a validation that lets port 0 through
validatePortFromZero(c) ==
  IF is_production(c) /\ c.SECRET_KEY = DevSecret
    THEN "SECRET_KEY must be set in production environment"
  ELSE IF c.API_PORT < 0 \/ c.API_PORT > 65535
    THEN "Invalid API_PORT"
  ELSE IF c.API_WORKERS < 1
    THEN "Invalid API_WORKERS"
  ELSE "ok"

\* a validation that checks nothing
validateNothing(c) == "ok"

\* config.py:59-69  Config.validate: the ValueError raised, or "ok"
validate(c) ==
  IF is_production(c) /\ c.SECRET_KEY = DevSecret
    THEN "SECRET_KEY must be set in production environment"
  ELSE IF c.API_PORT < 1 \/ c.API_PORT > 65535
    THEN "Invalid API_PORT"
  ELSE IF c.API_WORKERS < 1
    THEN "Invalid API_WORKERS"
  ELSE "ok"

\* config.py:13-42 defines neither MODEL_LOCAL_PATH nor ALLOW_RUN_FALLBACK
\* (has_resolver_fields = FALSE: reading them raises AttributeError); the
\* other configurations are those of a deployment that sets the two
\* attributes on the config object before startup.
ConfigBase ==
  [ENVIRONMENT |-> "development", SECRET_KEY |-> DevSecret,
   API_PORT |-> 8000, API_WORKERS |-> 4]

WithResolver(c, has, path, fb) ==
  [ENVIRONMENT |-> c.ENVIRONMENT, SECRET_KEY |-> c.SECRET_KEY,
   API_PORT |-> c.API_PORT, API_WORKERS |-> c.API_WORKERS,
   has_resolver_fields |-> has, MODEL_LOCAL_PATH |-> path,
   ALLOW_RUN_FALLBACK |-> fb]

\* "no path": MODEL_LOCAL_PATH unset or empty (falsy)
NoPath == <<>>

Configs ==
  LET bases == {ConfigBase,
                [ConfigBase EXCEPT !.API_PORT = 0],
                [ConfigBase EXCEPT !.ENVIRONMENT = "Production"]}
  IN  {WithResolver(b, FALSE, NoPath, FALSE) : b \in bases}
      \cup {WithResolver(b, TRUE, p, fb) :
              b \in bases, p \in LocalPaths \cup {NoPath}, fb \in BOOLEAN}

\* the settings Config.validate reads, over the values around each of its
\* comparisons (config.py:23, 29, 30, 36 read them from the environment)
ConfigInputs ==
  {WithResolver([ENVIRONMENT |-> e, SECRET_KEY |-> k, API_PORT |-> p,
                 API_WORKERS |-> w], FALSE, NoPath, FALSE) :
     e \in {"development", "staging", "production", "Production", "PRODUCTION"},
     k \in {DevSecret, "s3cret"},
     p \in {-1, 0, 1, 8000, 65535, 65536},
     w \in {-1, 0, 1, 4}}

(* ----------------------------- exceptions ------------------------------- *)
\* an exception: its class name, its message as a sequence of pieces, and
\* the path the message interpolates (NoPath when it names none)
Exc(type, text, path) == [type |-> type, text |-> text, path |-> path]
NoError == Exc("none", <<>>, NoPath)

\* main.py:95, 122, 164  RuntimeError(f"Model loading failed: {e}")
ModelLoadingFailed(e) ==
  Exc("RuntimeError", <<"Model loading failed: ">> \o e.text, e.path)

\* main.py:68-70
PathMissing(p) ==
  Exc("RuntimeError",
      <<"MODEL_LOCAL_PATH set to '", "' but path does not exist">>, p)

\* an exception raised inside mlflow (load_model, MlflowClient calls)
MlflowError(what) == Exc("MlflowException", <<what>>, NoPath)

VARIABLES
  config,             \* src/utils/config.py: the config singleton
  model,              \* main.py:54
  model_version,      \* main.py:55
  pc,                 \* where the FastAPI process is
  best_run,           \* main.py:151  local of load_model_from_registry
  attempts,           \* history: the sources tried, in order
  succeeded,          \* history: the sources whose load_model call returned
  contacted,          \* history: external services called by the resolver
  fatal,              \* the exception that ended startup, NoError if none
  writes,             \* history: number of assignments to `model`
  prediction_counter, \* metrics.py:6
  prediction_errors,  \* metrics.py:23
  model_confidence,   \* metrics.py:18  (percent; -1 = never set)
  latency_obs,        \* metrics.py:12  number of observations
  response,           \* the last HTTP response sent
  served,             \* number of requests handled
  path_exists,        \* the filesystem: Path(MODEL_LOCAL_PATH).exists()
  experiment_runs,    \* history: the runs the experiment held at search_runs
  request,            \* history: the image of the last POST /predict
  raised,             \* history: the exception the last request caught
  decodes,            \* history: number of base64/image decodings run
  inferences          \* history: number of model.predict calls

apiVars == <<config, model, model_version, pc, best_run, attempts, succeeded,
             contacted, fatal, writes, prediction_counter, prediction_errors,
             model_confidence, latency_obs, response, served, path_exists, experiment_runs,
             request, raised, decodes, inferences>>

VARIABLES
  flask_model,    \* app.py:20   model = None
  flask_thread,   \* per thread (0 = the main thread): pc, the value
                  \* load_model returned, whether the request saw a null
                  \* handle, the model it ran inference on, its response,
                  \* and the sources its call of load_model tried / loaded
  flask_writes,   \* history: assignments to app.py's `model`, per thread
  flask_started,  \* number of POST /predict requests received
  flask_health    \* the last GET /health response

flaskVars == <<flask_model, flask_thread, flask_writes, flask_started,
               flask_health>>

VARIABLES
  image_in,         \* the argument of one call of a normalizer
  tensor,           \* what that call returned or raised
  active_requests,  \* metrics.py:36
  api_requests,     \* metrics.py:30
  in_flight         \* per request: where it is in track_requests

auxVars == <<image_in, tensor, active_requests, api_requests, in_flight>>

vars == <<apiVars, flaskVars, auxVars>>

NoResponse == [endpoint |-> "none", code |-> 0]

\* the state after import of src.api.main (main.py:29-55)
ApiInit ==
  /\ model = None
  /\ model_version = Unknown
  /\ pc = "boot"
  /\ best_run = ""
  /\ experiment_runs = {}
  /\ attempts = <<>>
  /\ succeeded = {}
  /\ contacted = {}
  /\ fatal = NoError
  /\ writes = 0
  /\ prediction_counter = <<>>
  /\ prediction_errors = <<>>
  /\ model_confidence = -1
  /\ latency_obs = 0
  /\ response = NoResponse
  /\ served = 0
  /\ request = <<>>
  /\ raised = NoError
  /\ decodes = 0
  /\ inferences = 0

(* ------------------------- FastAPI: startup ----------------------------- *)
\* mutant: the fallback flag is ignored and failures always cascade
FallbackAlways(c) == TRUE

\* main.py:94, 121  `if not config.ALLOW_RUN_FALLBACK: raise`
FallbackAllowed(c) == c.ALLOW_RUN_FALLBACK

\* an exception leaves startup_event (main.py:167-173): the ASGI lifespan
\* startup fails and the server exits without serving
StartupFails(e) ==
  /\ fatal' = e
  /\ pc' = "exited"

\* load_model_from_registry returns; startup_event logs "API ready" and the
\* server starts serving (main.py:172-173)
StartupReady == pc' = "serving"

\* main.py:167-171  startup_event up to config.validate()
StartupValidate ==
  /\ pc = "boot"
  /\ IF validate(config) = "ok"
       THEN pc' = "resolve" /\ fatal' = fatal
       ELSE StartupFails(Exc("ValueError", <<validate(config)>>, NoPath))
  /\ UNCHANGED <<config, model, model_version, best_run, attempts, succeeded,
                 contacted, writes, prediction_counter, prediction_errors,
                 model_confidence, latency_obs, response, served,
                 path_exists, experiment_runs, request, raised, decodes, inferences>>
  /\ UNCHANGED <<flaskVars, auxVars>>

\* tests/integration/test_api.py:15-22  TestClient(app) used without its
\* context manager: the startup handlers never run, requests are served
ServeWithoutStartup ==
  /\ pc = "boot"
  /\ pc' = "serving"
  /\ UNCHANGED <<config, model, model_version, best_run, attempts, succeeded,
                 contacted, fatal, writes, prediction_counter,
                 prediction_errors, model_confidence, latency_obs, response, served,
                 path_exists, experiment_runs, request, raised, decodes, inferences>>
  /\ UNCHANGED <<flaskVars, auxVars>>

\* main.py:85-88  entry of load_model_from_registry: `if config.MODEL_LOCAL_PATH`
ResolveEntry ==
  /\ pc = "resolve"
  /\ IF ~config.has_resolver_fields
       THEN StartupFails(Exc("AttributeError", <<"MODEL_LOCAL_PATH">>, NoPath))
       ELSE /\ pc' = IF config.MODEL_LOCAL_PATH # NoPath THEN "local"
                     ELSE "registry_load"
            /\ fatal' = fatal
  /\ UNCHANGED <<config, model, model_version, best_run, attempts, succeeded,
                 contacted, writes, prediction_counter, prediction_errors,
                 model_confidence, latency_obs, response, served,
                 path_exists, experiment_runs, request, raised, decodes, inferences>>
  /\ UNCHANGED <<flaskVars, auxVars>>

\* main.py:92-96  the local load raised local_error
LocalFailed(e) ==
  IF ~FallbackAllowed(config)
    THEN StartupFails(ModelLoadingFailed(e))
    ELSE pc' = "registry_load" /\ fatal' = fatal

\* main.py:58-75 called from 89-96: load_model_from_local_path
\*   ok: mlflow.tensorflow.load_model returns
LoadLocal ==
  /\ pc = "local"
  /\ attempts' = Append(attempts, "local")
  /\ \E ok \in BOOLEAN :
       IF ~path_exists
         THEN /\ LocalFailed(PathMissing(config.MODEL_LOCAL_PATH))
              /\ UNCHANGED <<model, model_version, succeeded, writes>>
       ELSE IF ~ok
         THEN /\ LocalFailed(MlflowError("load_model failed"))
              /\ UNCHANGED <<model, model_version, succeeded, writes>>
       ELSE /\ model' = Handle("local", PathName(config.MODEL_LOCAL_PATH))
            /\ model_version' = <<"local", PathName(config.MODEL_LOCAL_PATH)>>
            /\ succeeded' = succeeded \cup {"local"}
            /\ writes' = writes + 1
            /\ StartupReady
            /\ fatal' = fatal
  /\ UNCHANGED <<config, best_run, contacted, prediction_counter,
                 prediction_errors, model_confidence, latency_obs, response, served,
                 path_exists, experiment_runs, request, raised, decodes, inferences>>
  /\ UNCHANGED <<flaskVars, auxVars>>

\* main.py:118-122  the registry try block raised e
RegistryFailed(e) ==
  IF ~FallbackAllowed(config)
    THEN StartupFails(ModelLoadingFailed(e))
    ELSE pc' = "fallback_experiment" /\ fatal' = fatal

\* main.py:98-104  load models:/<MODEL_NAME>/<MODEL_STAGE>
RegistryLoad ==
  /\ pc = "registry_load"
  /\ attempts' = Append(attempts, "registry")
  /\ contacted' = contacted \cup {"registry"}
  /\ \E ok \in BOOLEAN, v \in Versions :
       IF ok
         THEN /\ model' = Handle("registry", v)
              /\ succeeded' = succeeded \cup {"registry"}
              /\ writes' = writes + 1
              /\ pc' = "registry_versions"
              /\ fatal' = fatal
         ELSE /\ RegistryFailed(MlflowError("load_model failed"))
              /\ UNCHANGED <<model, succeeded, writes>>
  /\ UNCHANGED <<config, model_version, best_run, prediction_counter,
                 prediction_errors, model_confidence, latency_obs, response, served,
                 path_exists, experiment_runs, request, raised, decodes, inferences>>
  /\ UNCHANGED <<flaskVars, auxVars>>

\* main.py:107-116  client.get_latest_versions(name, stages=[stage]):
\*   "found": the list holds the version at the stage; "empty": it is empty
\*   (the stage names no staged version); "raise": the call raises
RegistryVersions ==
  /\ pc = "registry_versions"
  /\ \E outcome \in {"found", "empty", "raise"} :
       CASE outcome = "found" ->
              /\ model_version' = <<"", model.id>>
              /\ StartupReady
              /\ fatal' = fatal
         [] outcome = "empty" ->
              /\ model_version' = model_version
              /\ StartupReady
              /\ fatal' = fatal
         [] outcome = "raise" ->
              /\ model_version' = model_version
              /\ RegistryFailed(MlflowError("get_latest_versions failed"))
  /\ UNCHANGED <<config, model, best_run, attempts, succeeded, contacted,
                 writes, prediction_counter, prediction_errors,
                 model_confidence, latency_obs, response, served,
                 path_exists, experiment_runs, request, raised, decodes, inferences>>
  /\ UNCHANGED <<flaskVars, auxVars>>

\* main.py:162-164  the fallback try block raised e
FallbackFailed(e) == StartupFails(ModelLoadingFailed(e))

\* main.py:125-138  client.get_experiment_by_name(EXPERIMENT_NAME)
FallbackExperiment ==
  /\ pc = "fallback_experiment"
  /\ attempts' = Append(attempts, "run")
  /\ contacted' = contacted \cup {"tracking"}
  /\ \E outcome \in {"found", "none", "raise"} :
       CASE outcome = "found" -> pc' = "fallback_search" /\ fatal' = fatal
         [] outcome = "none" ->
              FallbackFailed(Exc("RuntimeError",
                  <<"Experiment not found; cannot fallback to best run">>,
                  NoPath))
         [] outcome = "raise" ->
              FallbackFailed(MlflowError("get_experiment_by_name failed"))
  /\ UNCHANGED <<config, model, model_version, best_run, succeeded, writes,
                 prediction_counter, prediction_errors, model_confidence,
                 latency_obs, response, served,
                 path_exists, experiment_runs, request, raised, decodes, inferences>>
  /\ UNCHANGED <<flaskVars, auxVars>>

\* search_runs(order_by=["metrics.test_accuracy DESC"], max_results=1) over
\* the runs the experiment holds: the run of highest test_accuracy
SearchRuns(runs) ==
  IF runs = {} THEN <<>>
  ELSE <<CHOOSE r \in runs : \A s \in runs : TestAccuracy[r] >= TestAccuracy[s]>>

\* main.py:140-151  client.search_runs(...); best_run = runs[0]
FallbackSearch ==
  /\ pc = "fallback_search"
  /\ \E raises \in BOOLEAN, held \in SUBSET RunIds :
       IF raises
         THEN /\ FallbackFailed(MlflowError("search_runs failed"))
              /\ UNCHANGED <<best_run, experiment_runs>>
       ELSE IF SearchRuns(held) = <<>>
         THEN /\ FallbackFailed(Exc("RuntimeError",
                     <<"No runs found in experiment to fallback">>, NoPath))
              /\ UNCHANGED <<best_run, experiment_runs>>
       ELSE /\ best_run' = SearchRuns(held)[1]
            /\ experiment_runs' = held
            /\ pc' = "fallback_load"
            /\ fatal' = fatal
  /\ UNCHANGED <<config, model, model_version, attempts, succeeded, contacted,
                 writes, prediction_counter, prediction_errors,
                 model_confidence, latency_obs, response, served,
                 path_exists, request, raised, decodes, inferences>>
  /\ UNCHANGED <<flaskVars, auxVars>>

\* main.py:152-160  load runs:/<run_id>/model
FallbackLoad ==
  /\ pc = "fallback_load"
  /\ \E ok \in BOOLEAN :
       IF ok
         THEN /\ model' = Handle("run", best_run)
              /\ model_version' = <<"run", best_run>>
              /\ succeeded' = succeeded \cup {"run"}
              /\ writes' = writes + 1
              /\ StartupReady
              /\ fatal' = fatal
         ELSE /\ FallbackFailed(MlflowError("load_model failed"))
              /\ UNCHANGED <<model, model_version, succeeded, writes>>
  /\ UNCHANGED <<config, best_run, attempts, contacted, prediction_counter,
                 prediction_errors, model_confidence, latency_obs, response, served,
                 path_exists, experiment_runs, request, raised, decodes, inferences>>
  /\ UNCHANGED <<flaskVars, auxVars>>

(* ------------------------- FastAPI: requests ---------------------------- *)
\* prometheus Counter.labels(k).inc(): the child is created on first use
Inc(counter, k) ==
  IF k \in DOMAIN counter THEN [counter EXCEPT ![k] = @ + 1]
  ELSE counter @@ (k :> 1)

\* the value of a labelled counter (0 for a label never used)
Count(counter, k) == IF k \in DOMAIN counter THEN counter[k] ELSE 0

\* mutant: the null test is dropped
ModelLoadedAlways(m) == TRUE

\* `model is not None` (main.py:225-226, 246)
ModelLoaded(m) == m # None

\* main.py:216-229  GET /health
HealthResponse(m, v) ==
  [endpoint |-> "health", code |-> 200,
   status |-> IF ModelLoaded(m) THEN "healthy" ELSE "unhealthy",
   model_loaded |-> ModelLoaded(m),
   model_version |-> v]

\* a health check that starts a model load when it finds the handle null
health_checkLazyLoad ==
  /\ pc = "serving"
  /\ served < MaxRequests
  /\ served' = served + 1
  /\ response' = HealthResponse(model, model_version)
  /\ IF model = None
       THEN /\ model' = Handle("registry", "1")
            /\ attempts' = Append(attempts, "registry")
            /\ writes' = writes + 1
       ELSE UNCHANGED <<model, attempts, writes>>
  /\ UNCHANGED <<config, model_version, pc, best_run,
                 succeeded, contacted, fatal, prediction_counter,
                 prediction_errors, model_confidence, latency_obs, path_exists, experiment_runs,
                 request, raised, decodes, inferences>>
  /\ UNCHANGED <<flaskVars, auxVars>>

\* main.py:216-229  health_check: builds the response from the globals
health_check ==
  /\ pc = "serving"
  /\ served < MaxRequests
  /\ served' = served + 1
  /\ response' = HealthResponse(model, model_version)
  /\ UNCHANGED <<config, model, model_version, pc, best_run, attempts,
                 succeeded, contacted, fatal, writes, prediction_counter,
                 prediction_errors, model_confidence, latency_obs, path_exists, experiment_runs,
                 request, raised, decodes, inferences>>
  /\ UNCHANGED <<flaskVars, auxVars>>

\* main.py:288-298  GET /api/info: constants and four configuration values
InfoResponse(c) ==
  [endpoint |-> "info", code |-> 200, name |-> "MNIST Classification API",
   environment |-> c.ENVIRONMENT]

api_info ==
  /\ pc = "serving"
  /\ served < MaxRequests
  /\ served' = served + 1
  /\ response' = InfoResponse(config)
  /\ UNCHANGED <<config, model, model_version, pc, best_run, attempts,
                 succeeded, contacted, fatal, writes, prediction_counter,
                 prediction_errors, model_confidence, latency_obs, path_exists, experiment_runs,
                 request, raised, decodes, inferences>>
  /\ UNCHANGED <<flaskVars, auxVars>>

\* A request.image is the sequence of its pieces between commas. A piece is
\* named for what the decoders make of it:
\*   "invalid_base64"        the literal of tests/integration/test_api.py:73
\*   "data:image/png;base64" a data-URL scheme
\*   "b64(png)"              base64 text of an encoded raster image
\*   "b64(text)"             base64 text of bytes that are no image
\*   ""                      the empty string
Pieces == {"invalid_base64", "data:image/png;base64", "b64(png)", "b64(text)", ""}
Payloads ==
  {<<a>> : a \in Pieces}
    \cup {<<a, b>> : a \in {"data:image/png;base64", "b64(png)"}, b \in Pieces}
    \cup {<<"data:image/png;base64", "b64(png)", "b64(text)">>}

\* main.py:253  request.image.split(",")[1] if "," in request.image else request.image
ImageData(image) == IF Len(image) > 1 THEN image[2] ELSE image[1]

\* main.py:254  base64.b64decode (non-strict): characters outside the
\* alphabet are dropped, then a data length of 1 mod 4 or a missing padding
\* raises binascii.Error ("invalid_base64" keeps 13 characters, the scheme 19)
b64decode(piece) ==
  CASE piece = "b64(png)" -> [ok |-> TRUE, bytes |-> "png"]
    [] piece = "b64(text)" -> [ok |-> TRUE, bytes |-> "text"]
    [] piece = "" -> [ok |-> TRUE, bytes |-> ""]
    [] OTHER -> [ok |-> FALSE, bytes |-> ""]

\* main.py:257  Image.open(io.BytesIO(image_bytes))
ImageOpens(bytes) == bytes = "png"

\* main.py:252-261  decode and normalise: the tensor, or the exception
Decode(image) ==
  LET b == b64decode(ImageData(image)) IN
  IF ~b.ok THEN [ok |-> FALSE, exc |-> Exc("Error", <<"Incorrect padding">>, NoPath)]
  ELSE IF ~ImageOpens(b.bytes)
    THEN [ok |-> FALSE,
          exc |-> Exc("UnidentifiedImageError", <<"cannot identify image file">>, NoPath)]
  ELSE [ok |-> TRUE, exc |-> NoError]

\* outputs of model.predict(...)[0], in percent: a peak at class k, a tie
\* between classes 0 and 1, and the output of a model with 9 classes
Peak(k) == [i \in 1..10 |-> IF i = k + 1 THEN 91 ELSE 1]
ProbVectors ==
  {Peak(0), Peak(7), Peak(9),
   [i \in 1..10 |-> IF i <= 2 THEN 50 ELSE 0],
   [i \in 1..9 |-> IF i = 3 THEN 92 ELSE 1]}

\* main.py:265  int(np.argmax(predictions)): the first index of the maximum
ArgMax(v) ==
  (CHOOSE i \in 1..Len(v) :
     /\ \A j \in 1..Len(v) : v[j] <= v[i]
     /\ \A j \in 1..(i - 1) : v[j] < v[i]) - 1

\* a response schema without the validator of the vector's length
ValidPredictionAnyLength(prediction, confidence, probabilities) ==
  /\ prediction >= 0 /\ prediction <= 9
  /\ confidence >= 0 /\ confidence <= 100

\* schemas.py:22-35  PredictionResponse validation
ValidPrediction(prediction, confidence, probabilities) ==
  /\ prediction >= 0 /\ prediction <= 9
  /\ confidence >= 0 /\ confidence <= 100
  /\ Len(probabilities) = 10

\* mutant: every failure is counted under one fixed label
PredictionFailedUnlabelled(e) ==
  /\ raised' = e
  /\ prediction_errors' = Inc(prediction_errors, "Exception")
  /\ response' = [endpoint |-> "predict", code |-> 500,
                  detail |-> <<"Prediction failed: ">> \o e.text]

\* main.py:282-285  except Exception as e
PredictionFailed(e) ==
  /\ raised' = e
  /\ prediction_errors' = Inc(prediction_errors, e.type)
  /\ response' = [endpoint |-> "predict", code |-> 500,
                  detail |-> <<"Prediction failed: ">> \o e.text]

\* main.py:246-248  the handle is null
RejectNotLoaded ==
  /\ prediction_errors' = Inc(prediction_errors, "model_not_loaded")
  /\ raised' = Exc("HTTPException", <<"Model not loaded">>, NoPath)
  /\ response' = [endpoint |-> "predict", code |-> 503,
                  detail |-> <<"Model not loaded">>]
  /\ UNCHANGED <<prediction_counter, model_confidence, latency_obs, decodes,
                 inferences>>

\* a handler that labels the prediction counter with the tag the module
\* was imported with
AnswerLabelledAtImport(vec) ==
  LET prediction == ArgMax(vec)
      confidence == vec[prediction + 1]
  IN  /\ prediction_counter' =
           Inc(prediction_counter, <<Unknown, prediction>>)
      /\ model_confidence' = confidence
      /\ IF ValidPrediction(prediction, confidence, vec)
           THEN /\ response' = [endpoint |-> "predict", code |-> 200,
                                prediction |-> prediction,
                                confidence |-> confidence,
                                probabilities |-> vec]
                /\ prediction_errors' = prediction_errors
                /\ raised' = NoError
           ELSE PredictionFailed(
                  Exc("ValidationError",
                      <<"Probabilities must have exactly 10 elements">>, NoPath))

\* main.py:264-280  model.predict returned vec
Answer(vec) ==
  LET prediction == ArgMax(vec)
      confidence == vec[prediction + 1]
  IN  /\ prediction_counter' =
           Inc(prediction_counter, <<model_version, prediction>>)
      /\ model_confidence' = confidence
      /\ IF ValidPrediction(prediction, confidence, vec)
           THEN /\ response' = [endpoint |-> "predict", code |-> 200,
                                prediction |-> prediction,
                                confidence |-> confidence,
                                probabilities |-> vec]
                /\ prediction_errors' = prediction_errors
                /\ raised' = NoError
           ELSE PredictionFailed(
                  Exc("ValidationError",
                      <<"Probabilities must have exactly 10 elements">>, NoPath))

\* main.py:232-285  POST /predict
\*   raises, vec: what model.predict does with the tensor
predict ==
  /\ pc = "serving"
  /\ served < MaxRequests
  /\ served' = served + 1
  /\ \E image \in Payloads :
       /\ request' = image
       /\ IF ~ModelLoaded(model)
            THEN RejectNotLoaded
          ELSE /\ latency_obs' = latency_obs + 1
               /\ decodes' = decodes + 1
               /\ IF ~Decode(image).ok
                    THEN /\ PredictionFailed(Decode(image).exc)
                         /\ UNCHANGED <<prediction_counter, model_confidence,
                                        inferences>>
                    ELSE /\ inferences' = inferences + 1
                         /\ \/ /\ PredictionFailed(
                                    Exc("InvalidArgumentError",
                                        <<"predict failed">>, NoPath))
                               /\ UNCHANGED <<prediction_counter,
                                              model_confidence>>
                            \/ \E vec \in ProbVectors : Answer(vec)
  /\ UNCHANGED <<config, model, model_version, pc, best_run, attempts,
                 succeeded, contacted, fatal, writes, path_exists, experiment_runs>>
  /\ UNCHANGED <<flaskVars, auxVars>>

(* --------------------------- Flask application --------------------------- *)
MainThread == 0
RequestThreads == 1..NumThreads

\* a request thread between requests; tested and used record the value of
\* the global at the two reads of app.py:149 and app.py:152
Idle == [pc |-> "idle", ret |-> None, saw_null |-> FALSE, tested |-> None,
         used |-> None, code |-> 0, tried |-> <<>>, loaded |-> {},
         image_empty |-> FALSE, image_decodes |-> FALSE, calls |-> <<>>]

\* the state after import of app.py (app.py:17-20), `__main__` about to call
\* load_model (app.py:179-184)
FlaskInit ==
  /\ flask_model = None
  /\ flask_thread = [t \in {MainThread} \cup RequestThreads |->
                       IF t = MainThread THEN [Idle EXCEPT !.pc = "load_registry"]
                       ELSE Idle]
  /\ flask_writes = [t \in {MainThread} \cup RequestThreads |-> 0]
  /\ flask_started = 0
  /\ flask_health = NoResponse

\* load_model returns m to its caller: `__main__` discards the value and goes
\* on to app.run (app.py:184-193); predict assigns it (app.py:150)
FlaskReturn(t, m) ==
  flask_thread' = [flask_thread EXCEPT
                     ![t].pc = IF t = MainThread THEN "serving" ELSE "assign",
                     ![t].ret = m,
                     ![t].tried = Append(@, m.src),
                     ![t].loaded = @ \cup {m.src}]

\* a load_model whose successful branches lack `return model`: it assigns
\* the global and goes on to the next source
FlaskLoadedWithoutReturn(t, m) ==
  /\ flask_model' = m
  /\ flask_writes' = [flask_writes EXCEPT ![t] = @ + 1]
  /\ IF m.src = "local"
       THEN FlaskReturn(t, m)
       ELSE flask_thread' = [flask_thread EXCEPT
              ![t].pc = IF m.src = "registry" THEN "load_runs" ELSE "load_local",
              ![t].tried = Append(@, m.src),
              ![t].loaded = @ \cup {m.src}]

\* `model = mlflow.tensorflow.load_model(...)` inside load_model
\* (app.py:38, 62, 73), followed by `return model`
FlaskLoaded(t, m) ==
  /\ flask_model' = m
  /\ flask_writes' = [flask_writes EXCEPT ![t] = @ + 1]
  /\ FlaskReturn(t, m)

\* app.py:32-43  option 1: models:/Mnist_Best_Model/Production
FlaskLoadRegistry(t) ==
  /\ flask_thread[t].pc = "load_registry"
  /\ \/ FlaskLoaded(t, Handle("registry", "Production"))
     \/ /\ flask_thread' = [flask_thread EXCEPT
                                ![t].pc = "load_runs",
                                ![t].tried = Append(@, "registry")]
        /\ UNCHANGED <<flask_model, flask_writes>>
  /\ UNCHANGED <<flask_started, flask_health>>
  /\ UNCHANGED <<apiVars, auxVars>>

\* app.py:45-66  option 2: the best run of the experiment; a missing
\* experiment, an empty run list and any exception all lead to option 3
FlaskLoadRuns(t) ==
  /\ flask_thread[t].pc = "load_runs"
  /\ \E found \in BOOLEAN, held \in SUBSET RunIds, ok \in BOOLEAN :
       IF found /\ SearchRuns(held) # <<>> /\ ok
         THEN FlaskLoaded(t, Handle("run", SearchRuns(held)[1]))
         ELSE /\ flask_thread' = [flask_thread EXCEPT
                                      ![t].pc = "load_local",
                                      ![t].tried = Append(@, "run")]
              /\ UNCHANGED <<flask_model, flask_writes>>
  /\ UNCHANGED <<flask_started, flask_health>>
  /\ UNCHANGED <<apiVars, auxVars>>

\* app.py:79 raises: `__main__` prints a warning and serves (app.py:186-193);
\* predict answers 500 (app.py:168-170)
FlaskLoadRaised(t) ==
  flask_thread' = [flask_thread EXCEPT
                     ![t].pc = IF t = MainThread THEN "serving" ELSE "idle",
                     ![t].code = IF t = MainThread THEN 0 ELSE 500,
                     ![t].tried = Append(@, "local")]

\* app.py:68-79  option 3: ./saved_model, then the final raise
FlaskLoadLocal(t) ==
  /\ flask_thread[t].pc = "load_local"
  /\ \E exists \in BOOLEAN, ok \in BOOLEAN :
       IF exists /\ ok
         THEN FlaskLoaded(t, Handle("local", "saved_model"))
         ELSE /\ FlaskLoadRaised(t)
              /\ UNCHANGED <<flask_model, flask_writes>>
  /\ UNCHANGED <<flask_started, flask_health>>
  /\ UNCHANGED <<apiVars, auxVars>>

\* a preprocess_image that never raises
FlaskPreprocessNeverRaises(image) == TRUE

\* app.py:92-98  preprocess_image decodes the same way as main.py:253-257
FlaskPreprocessOk(image) == Decode(image).ok

\* what a request is known by afterwards: whether its image was missing or
\* empty, whether it decodes, and the calls the handler has made for it
Received(image, calls) ==
  [Idle EXCEPT !.image_empty = (image = <<"">>),
               !.image_decodes = Decode(image).ok,
               !.calls = calls]

\* app.py:136-145  predict up to preprocess_image
FlaskBegin(t) ==
  /\ flask_thread[MainThread].pc = "serving"
  /\ flask_thread[t].pc = "idle"
  /\ flask_started < MaxFlaskRequests
  /\ flask_started' = flask_started + 1
  /\ \E image \in Payloads :
       flask_thread' = [flask_thread EXCEPT ![t] =
         IF image = <<"">> THEN [Received(image, <<>>) EXCEPT !.code = 400]
         ELSE IF ~FlaskPreprocessOk(image)
           THEN [Received(image, <<"preprocess_image">>) EXCEPT !.code = 500]
         ELSE [Received(image, <<"preprocess_image">>) EXCEPT !.pc = "check"]]
  /\ UNCHANGED <<flask_model, flask_writes, flask_health>>
  /\ UNCHANGED <<apiVars, auxVars>>

\* app.py:148-150  `if model is None:` then the call of load_model
FlaskCheck(t) ==
  /\ flask_thread[t].pc = "check"
  /\ flask_thread' = [flask_thread EXCEPT
                        ![t].pc = IF flask_model = None THEN "load_registry"
                                  ELSE "infer",
                        ![t].saw_null = (flask_model = None),
                        ![t].tested = flask_model,
                        ![t].calls = IF flask_model = None
                                       THEN Append(@, "load_model") ELSE @]
  /\ UNCHANGED <<flask_model, flask_writes, flask_started, flask_health>>
  /\ UNCHANGED <<apiVars, auxVars>>

\* app.py:150  `model = load_model()`: the assignment of the returned value
FlaskAssign(t) ==
  /\ flask_thread[t].pc = "assign"
  /\ flask_model' = flask_thread[t].ret
  /\ flask_writes' = [flask_writes EXCEPT ![t] = @ + 1]
  /\ flask_thread' = [flask_thread EXCEPT ![t].pc = "infer"]
  /\ UNCHANGED <<flask_started, flask_health>>
  /\ UNCHANGED <<apiVars, auxVars>>

\* app.py:152-170  model.predict on the global, the response
FlaskInfer(t) ==
  /\ flask_thread[t].pc = "infer"
  /\ \E raises \in BOOLEAN, vec \in ProbVectors :
       flask_thread' = [flask_thread EXCEPT
         ![t].pc = "idle",
         ![t].used = flask_model,
         ![t].calls = Append(@, "model.predict"),
         ![t].code = IF flask_model = None \/ raises \/ Len(vec) < 10
                     THEN 500 ELSE 200]
  /\ UNCHANGED <<flask_model, flask_writes, flask_started, flask_health>>
  /\ UNCHANGED <<apiVars, auxVars>>

\* app.py:173-176  GET /health (saw: the handle the response was built from)
FlaskHealthResponse(m) ==
  [endpoint |-> "health", code |-> 200, status |-> "healthy",
   model_loaded |-> (m # None), saw |-> m]

health ==
  /\ flask_thread[MainThread].pc = "serving"
  /\ flask_health' = FlaskHealthResponse(flask_model)
  /\ UNCHANGED <<flask_model, flask_thread, flask_writes, flask_started>>
  /\ UNCHANGED <<apiVars, auxVars>>

(* ------------------------- image normalizers ---------------------------- *)
\* A raster image: its PIL mode, its size (width, height) and the least and
\* the greatest sample it holds (for RGB and RGBA, of its luminance).
Img(mode, size, lo, hi) == [mode |-> mode, size |-> size, lo |-> lo, hi |-> hi]

\* a solid-gray 28x28 bitmap of value g in mode L
Solid(g) == Img("L", <<28, 28>>, g, g)

\* images of several sizes and colour depths: 1-bit, 8-bit gray, RGB, RGBA
\* and 16-bit gray
Images ==
  {Solid(g) : g \in 0..255}
    \cup {Img("1", sz, lo, hi) :
            sz \in {<<1, 1>>, <<280, 280>>}, lo \in {0, 1}, hi \in {1}}
    \cup {Img(m, sz, lo, hi) :
            m \in {"L", "RGB", "RGBA"},
            sz \in {<<1, 1>>, <<28, 28>>, <<280, 280>>, <<640, 480>>},
            lo \in {0, 100}, hi \in {100, 255}}
    \cup {Img("I;16", sz, lo, hi) :
            sz \in {<<28, 28>>, <<64, 32>>}, lo \in {0, 300}, hi \in {300, 65535}}

\* image.save(buffer, format="PNG"): lossless for all of these modes
PngEncode(img) == [format |-> "png", image |-> img]

\* base64.b64encode(bytes).decode()
b64encode(bytes) == [alphabet |-> "base64", bytes |-> bytes]

\* the two forms a client sends: the bare base64 text, or a data URL
Payload(text, dataurl) ==
  IF dataurl THEN <<"data:image/png;base64", text>> ELSE <<text>>

\* main.py:254 / app.py:97  base64.b64decode of the text of an encoded image
b64decodeText(text) == text.bytes

\* main.py:257 / app.py:98  Image.open(io.BytesIO(image_bytes))
ImageOpen(bytes) == bytes.image

\* a normalizer that leaves the image in its own mode
KeepMode(img) == img

\* main.py:257 / app.py:101  image.convert("L"): 1-bit samples become 0 or
\* 255, luminance stays within the range of the channels, 16-bit samples
\* above 255 are clipped
ConvertL(img) ==
  CASE img.mode = "1" -> Img("L", img.size, 255 * img.lo, 255 * img.hi)
    [] img.mode = "I;16" ->
         Img("L", img.size, IF img.lo > 255 THEN 255 ELSE img.lo,
                            IF img.hi > 255 THEN 255 ELSE img.hi)
    [] OTHER -> Img("L", img.size, img.lo, img.hi)

\* main.py:258 / app.py:104  image.resize((28, 28)): an image of that size is
\* copied; otherwise the resampling filter may overshoot the range of the
\* samples and its result is clipped to the 8 bits of mode L
Resize(img) ==
  IF img.size = <<28, 28>> THEN {img}
  ELSE {Img(img.mode, <<28, 28>>, lo, hi) :
          lo \in {img.lo, 0}, hi \in {img.hi, 255}}

\* np.array(image): (height, width), plus a channel axis for RGB and RGBA
Array(img) ==
  [shape |-> <<img.size[2], img.size[1]>>
               \o (CASE img.mode = "RGB" -> <<3>>
                     [] img.mode = "RGBA" -> <<4>>
                     [] OTHER -> <<>>),
   lo |-> img.lo, hi |-> img.hi]

\* a normalizer without the inversion
NoInvert(a) == a

\* app.py:110  255 - image_array on uint8
Invert(a) == [a EXCEPT !.lo = (255 - a.hi) % 256, !.hi = (255 - a.lo) % 256]

\* np.expand_dims(a, axis) for axis 0 and axis -1
ExpandDims(shape, axis) == IF axis = 0 THEN <<1>> \o shape ELSE Append(shape, 1)

\* a tensor: its shape and the least and greatest element as lo/den, hi/den
Tensor(by, shape, lo, hi, den) ==
  [ok |-> TRUE, by |-> by, shape |-> shape, lo |-> lo, hi |-> hi, den |-> den]

NoTensor == [ok |-> FALSE, by |-> "none"]

\* main.py:259-261  astype("float32") / 255.0, expand_dims -1, expand_dims 0
ApiTensor(a) ==
  Tensor("api", ExpandDims(ExpandDims(a.shape, -1), 0), a.lo, a.hi, 255)

\* app.py:107-117  invert, astype('float32') / 255.0, expand_dims 0, -1
FlaskTensor(a) ==
  Tensor("flask", ExpandDims(ExpandDims(a.shape, 0), -1),
         Invert(a).lo, Invert(a).hi, 255)

\* the inputs of the two request normalizers and of loader.preprocess_image
ImageInputs ==
  {[kind |-> "payload", image |-> img, dataurl |-> d] :
     img \in Images, d \in BOOLEAN}

ArrayInputs ==
  {[kind |-> "array", shape |-> sh, lo |-> lo, hi |-> hi] :
     sh \in {<<28, 28>>, <<28, 28, 1>>, <<32, 32>>, <<28, 28, 3>>,
             <<1, 28, 28>>, <<1, 28, 28, 1>>, <<28>>, <<784>>, <<>>},
     lo \in {0, 7, 255}, hi \in {255}}

NoInput == [kind |-> "none"]

\* main.py:252-261  the normalizer of the FastAPI predict
NormalizeApi ==
  /\ image_in.kind = "payload"
  /\ tensor = NoTensor
  /\ LET image_data == ImageData(Payload(b64encode(PngEncode(image_in.image)),
                                         image_in.dataurl))
         image == ConvertL(ImageOpen(b64decodeText(image_data)))
     IN  \E resized \in Resize(image) : tensor' = ApiTensor(Array(resized))
  /\ UNCHANGED <<image_in, active_requests, api_requests, in_flight>>
  /\ UNCHANGED <<apiVars, flaskVars>>

\* app.py:82-119  preprocess_image of the Flask app
NormalizeFlask ==
  /\ image_in.kind = "payload"
  /\ tensor = NoTensor
  /\ LET image_data == ImageData(Payload(b64encode(PngEncode(image_in.image)),
                                         image_in.dataurl))
         image == ConvertL(ImageOpen(b64decodeText(image_data)))
     IN  \E resized \in Resize(image) : tensor' = FlaskTensor(Array(resized))
  /\ UNCHANGED <<image_in, active_requests, api_requests, in_flight>>
  /\ UNCHANGED <<apiVars, flaskVars>>

\* a loader that accepts every two-dimensional array
LoaderShapeOkAnySize(shape) == Len(shape) = 2 \/ shape = <<28, 28, 1>>

\* loader.py:64  image.shape not in [(28, 28), (28, 28, 1)]
LoaderShapeOk(shape) == shape \in {<<28, 28>>, <<28, 28, 1>>}

\* loader.py:52-78  preprocess_image
LoaderPreprocess ==
  /\ image_in.kind = "array"
  /\ tensor = NoTensor
  /\ tensor' =
       IF ~LoaderShapeOk(image_in.shape)
         THEN [ok |-> FALSE, by |-> "loader",
               exc |-> Exc("ValueError", <<"Invalid image shape: ">>, NoPath)]
       ELSE Tensor("loader",
                   ExpandDims(IF Len(image_in.shape) = 2
                                THEN ExpandDims(image_in.shape, -1)
                                ELSE image_in.shape, 0),
                   image_in.lo, image_in.hi, 255)
  /\ UNCHANGED <<image_in, active_requests, api_requests, in_flight>>
  /\ UNCHANGED <<apiVars, flaskVars>>

(* ------------------------ request middleware ---------------------------- *)
Clients == 1..NumClients

\* no normalizer call, no request in the middleware
AuxInit ==
  /\ image_in = NoInput
  /\ tensor = NoTensor
  /\ active_requests = 0
  /\ api_requests = <<>>
  /\ in_flight = [r \in Clients |-> "none"]

\* main.py:189-190  a middleware that decrements after the try statement
\* and not in its finally block
LeaveAfterTry(gauge, failed) == IF failed THEN gauge ELSE gauge - 1

\* main.py:189-190  finally: active_requests.dec()
Leave(gauge, failed) == gauge - 1

\* main.py:179-183  active_requests.inc(), then await call_next(request):
\* the handler runs while other requests enter and leave
MiddlewareEnter(r) ==
  /\ in_flight[r] = "none"
  /\ active_requests' = active_requests + 1
  /\ in_flight' = [in_flight EXCEPT ![r] = "handler"]
  /\ UNCHANGED <<image_in, tensor, api_requests>>
  /\ UNCHANGED <<apiVars, flaskVars>>

\* main.py:183-184, 189-202  call_next returned a response
MiddlewareReturn(r) ==
  /\ in_flight[r] = "handler"
  /\ \E status_code \in {200, 500, 503} :
       api_requests' = Inc(api_requests, status_code)
  /\ active_requests' = Leave(active_requests, FALSE)
  /\ in_flight' = [in_flight EXCEPT ![r] = "answered"]
  /\ UNCHANGED <<image_in, tensor>>
  /\ UNCHANGED <<apiVars, flaskVars>>

\* main.py:185-196  call_next raised: an Exception is counted as status 500
\* and raised again; a cancellation (no Exception) leaves status_code
\* unbound, so the finally block stops after the decrement
MiddlewareRaise(r) ==
  /\ in_flight[r] = "handler"
  /\ \E cancelled \in BOOLEAN :
       api_requests' = IF cancelled THEN api_requests
                       ELSE Inc(api_requests, 500)
  /\ active_requests' = Leave(active_requests, TRUE)
  /\ in_flight' = [in_flight EXCEPT ![r] = "raised"]
  /\ UNCHANGED <<image_in, tensor>>
  /\ UNCHANGED <<apiVars, flaskVars>>

(* ---------------------------- specifications ---------------------------- *)
\* the FastAPI service under every configuration
Init ==
  /\ config \in Configs
  /\ path_exists \in (IF config.MODEL_LOCAL_PATH = NoPath THEN {FALSE}
                      ELSE BOOLEAN)
  /\ ApiInit
  /\ FlaskInit
  /\ AuxInit

Next ==
  \/ StartupValidate
  \/ ServeWithoutStartup
  \/ ResolveEntry
  \/ LoadLocal
  \/ RegistryLoad
  \/ RegistryVersions
  \/ FallbackExperiment
  \/ FallbackSearch
  \/ FallbackLoad
  \/ health_check
  \/ api_info
  \/ predict

Spec == Init /\ [][Next]_vars

\* the Flask application (it reads no configuration)
FlaskSpecInit ==
  /\ config = WithResolver(ConfigBase, FALSE, NoPath, FALSE)
  /\ path_exists = FALSE
  /\ ApiInit
  /\ FlaskInit
  /\ AuxInit

FlaskNext ==
  \/ \E t \in {MainThread} \cup RequestThreads :
       \/ FlaskLoadRegistry(t)
       \/ FlaskLoadRuns(t)
       \/ FlaskLoadLocal(t)
  \/ \E t \in RequestThreads :
       \/ FlaskBegin(t)
       \/ FlaskCheck(t)
       \/ FlaskAssign(t)
       \/ FlaskInfer(t)
  \/ health

FlaskSpec == FlaskSpecInit /\ [][FlaskNext]_vars

\* Config.validate applied to every input configuration, as startup_event
\* applies it (main.py:171)
ConfigInit ==
  /\ config \in ConfigInputs
  /\ path_exists = FALSE
  /\ ApiInit
  /\ FlaskInit
  /\ AuxInit

ConfigNext == StartupValidate

ConfigSpec == ConfigInit /\ [][ConfigNext]_vars

\* each normalizer applied once to each of its inputs
ImageInit ==
  /\ config = WithResolver(ConfigBase, FALSE, NoPath, FALSE)
  /\ path_exists = FALSE
  /\ ApiInit
  /\ FlaskInit
  /\ image_in \in ImageInputs \cup ArrayInputs
  /\ tensor = NoTensor
  /\ active_requests = 0
  /\ api_requests = <<>>
  /\ in_flight = [r \in Clients |-> "none"]

ImageNext ==
  \/ NormalizeApi
  \/ NormalizeFlask
  \/ LoaderPreprocess

ImageSpec == ImageInit /\ [][ImageNext]_vars

\* the request-tracking middleware under interleaved requests
MiddlewareInit ==
  /\ config = WithResolver(ConfigBase, FALSE, NoPath, FALSE)
  /\ path_exists = FALSE
  /\ ApiInit
  /\ FlaskInit
  /\ AuxInit

MiddlewareNext ==
  \E r \in Clients :
    \/ MiddlewareEnter(r)
    \/ MiddlewareReturn(r)
    \/ MiddlewareRaise(r)

MiddlewareSpec == MiddlewareInit /\ [][MiddlewareNext]_vars

(* ======================= properties of the FastAPI service ============== *)
Range(seq) == {seq[i] : i \in 1..Len(seq)}

SourceRank(src) == CASE src = "local" -> 1 [] src = "registry" -> 2 [] src = "run" -> 3

\* a step of Spec that handles one POST /predict
PredictStep ==
  /\ pc = "serving"
  /\ served' = served + 1
  /\ response'.endpoint = "predict"

\* every label of the error counter but k keeps its value
OtherErrorsKept(k) ==
  \A l \in (DOMAIN prediction_errors \cup DOMAIN prediction_errors') \ {k} :
    Count(prediction_errors', l) = Count(prediction_errors, l)

\* C1: the resolver tries local path, registry stage, best run in that order;
\* a later source is attempted only after every earlier configured source
\* was attempted and failed; once a source has loaded a model no later
\* source is attempted and that source's model is the handle in use.
C1_FirstSuccessWins ==
  /\ \A i, j \in 1..Len(attempts) :
       i < j => SourceRank(attempts[i]) < SourceRank(attempts[j])
  /\ ("registry" \in Range(attempts) /\ config.MODEL_LOCAL_PATH # NoPath)
       => attempts[1] = "local"
  /\ "run" \in Range(attempts) => "registry" \in Range(attempts)
  /\ \A i \in 1..Len(attempts) :
       attempts[i] \in succeeded
         => (i = Len(attempts) /\ model.src = attempts[i])

\* C2: a configured local path that does not exist, with fallback disabled:
\* once the local source has been tried the resolution has ended with a
\* RuntimeError whose message cites the missing path, the handle is still
\* null, and neither the registry nor the tracking service was contacted.
C2_MissingLocalPathIsFatal ==
  (/\ config.MODEL_LOCAL_PATH # NoPath
   /\ ~path_exists
   /\ ~config.ALLOW_RUN_FALLBACK)
    => /\ contacted = {}
       /\ attempts \in {<<>>, <<"local">>}
       /\ attempts = <<"local">> =>
            /\ pc = "exited"
            /\ fatal.type = "RuntimeError"
            /\ fatal.path = config.MODEL_LOCAL_PATH
            /\ "' but path does not exist" \in Range(fatal.text)
            /\ model = None

C2_Witness ==
  /\ config.MODEL_LOCAL_PATH # NoPath
  /\ ~path_exists
  /\ ~config.ALLOW_RUN_FALLBACK
  /\ attempts = <<"local">>
  /\ pc = "exited"
  /\ fatal.path = config.MODEL_LOCAL_PATH

\* C3: when the model load at startup has failed the server still starts:
\* a failed resolution never leaves the process stopped.
C3_StartsDespiteFailedLoad ==
  (config.has_resolver_fields /\ fatal.type = "RuntimeError") => pc # "exited"

\* C4: a prediction request that finds the handle null retries the model
\* resolution.
C4_NullHandleRetriesResolution ==
  [][(PredictStep /\ model = None) => attempts' # attempts]_vars

C6_ExceptionBecomes500 ==
  [][(PredictStep /\ model # None) =>
        /\ ~Decode(request').ok => raised'.type \in {"Error", "UnidentifiedImageError"}
        /\ raised' # NoError =>
             /\ response'.code = 500
             /\ Len(response'.detail) > 1
             /\ Count(prediction_errors', raised'.type)
                  = Count(prediction_errors, raised'.type) + 1
             /\ OtherErrorsKept(raised'.type)
        /\ raised' = NoError => response'.code = 200
        /\ model' = model
        /\ model_version' = model_version
        /\ pc' = "serving"]_vars

C6_Witness ==
  /\ model # None
  /\ response.endpoint = "predict"
  /\ response.code = 500
  /\ raised.type = "Error"
  /\ Count(prediction_errors, "Error") = 1

\* C7: POST /predict with the payload "invalid_base64" is answered 422 or
\* 500, whether or not a model is loaded.
C7_InvalidBase64Status ==
  (response.endpoint = "predict" /\ request = <<"invalid_base64">>)
    => response.code \in {422, 500}
\* the version tag the resolver gives a handle of each source
\* (main.py:74, 113, 159)
TagOf(m) ==
  CASE m.src = "local" -> <<"local", m.id>>
    [] m.src = "registry" -> <<"", m.id>>
    [] m.src = "run" -> <<"run", m.id>>
    [] OTHER -> Unknown

\* C8: every health response reports unhealthy / model_loaded false exactly
\* when the handle it was built from is null, and healthy / true exactly
\* when it is non-null (FastAPI GET /health and Flask GET /health).
C8_HealthMatchesHandle ==
  /\ response.endpoint = "health" =>
       /\ (response.status = "unhealthy" /\ ~response.model_loaded) <=> model = None
       /\ (response.status = "healthy" /\ response.model_loaded) <=> model # None
  /\ flask_health.endpoint = "health" =>
       /\ (flask_health.status = "unhealthy" /\ ~flask_health.model_loaded)
            <=> flask_health.saw = None
       /\ (flask_health.status = "healthy" /\ flask_health.model_loaded)
            <=> flask_health.saw # None

\* C9: a health response shows model_loaded true exactly when a resolution
\* has succeeded, status and model_loaded agree, and model_loaded true comes
\* with the version tag of the loaded model.
C9_HealthConsistent ==
  response.endpoint = "health" =>
    /\ response.model_loaded <=> (succeeded # {} /\ pc = "serving")
    /\ response.status = "healthy" <=> response.model_loaded
    /\ response.model_loaded => response.model_version = TagOf(model)

\* C10: the handle is assigned at most once by the startup resolution and at
\* most once by the lazy-load retries of all requests together.
C10_HandleWrittenOnce ==
  /\ writes <= 1
  /\ flask_writes[MainThread] <= 1
  /\ \A t, u \in RequestThreads :
       /\ flask_writes[t] <= 1
       /\ (flask_writes[t] > 0 /\ flask_writes[u] > 0) => t = u

\* C11: a prediction request works on one snapshot of the model reference:
\* the handle that answered the request is the handle the request tested
\* for null or, when that was null, the handle its own load returned, also
\* while another request replaces the handle; and the prediction counter is
\* labelled with the version tag of the handle in use.
C11_OneSnapshot ==
  /\ \A t \in RequestThreads :
       (flask_thread[t].pc = "idle" /\ flask_thread[t].code = 200)
         => flask_thread[t].used = (IF flask_thread[t].saw_null
                                      THEN flask_thread[t].ret
                                      ELSE flask_thread[t].tested)
  /\ \A k \in DOMAIN prediction_counter : k[1] = model_version

\* C12: whenever the resolution has completed through the registry, the
\* version tag is the registry version of the model that was loaded from the
\* configured stage, never the initial "unknown".
C12_RegistryTagIsVersion ==
  (pc = "serving" /\ model.src = "registry")
    => /\ model_version = <<"", model.id>>
       /\ model_version # Unknown

\* C13: when the configured local path exists and loads, the resolver has
\* returned at once: the handle is the local model, the tag is "local:"
\* followed by the last component of the path, no other source was
\* attempted, and neither the registry nor the tracking service was
\* contacted.
C13_LocalPathWins ==
  "local" \in succeeded
    => /\ config.MODEL_LOCAL_PATH # NoPath
       /\ path_exists
       /\ pc = "serving"
       /\ model.src = "local"
       /\ model_version
            = <<"local", config.MODEL_LOCAL_PATH[Len(config.MODEL_LOCAL_PATH)]>>
       /\ attempts = <<"local">>
       /\ contacted = {}

C13_Witness ==
  /\ "local" \in succeeded
  /\ model.src = "local"
  /\ model_version = <<"local", "saved_model">>
  /\ pc = "serving"

\* C14: the best-run source is consulted only with fallback enabled and
\* after the registry load has failed; with fallback disabled a failed
\* registry attempt is fatal and the experiment is never queried; a
\* successful fallback leaves the model of the run of highest test_accuracy
\* in the experiment as the handle, tagged run:<run_id> of that run.
C14_BestRunOnlyAfterRegistryFailure ==
  /\ "run" \in Range(attempts)
       => /\ config.ALLOW_RUN_FALLBACK
          /\ "registry" \in Range(attempts)
          /\ "registry" \notin succeeded
  /\ ~config.ALLOW_RUN_FALLBACK
       => /\ "tracking" \notin contacted
          /\ ("registry" \in Range(attempts) /\ "registry" \notin succeeded
              /\ pc # "registry_load")
               => (pc = "exited" /\ fatal.type = "RuntimeError")
  /\ "run" \in succeeded
       => /\ pc = "serving"
          /\ model.src = "run"
          /\ model.id \in experiment_runs
          /\ \A r \in experiment_runs : TestAccuracy[model.id] >= TestAccuracy[r]
          /\ model_version = <<"run", model.id>>

\* C15: every configuration field the resolver reads is defined, so a
\* resolution never aborts on an undefined field before it has attempted a
\* source.
C15_ResolverFieldsDefined ==
  ~(pc = "exited" /\ fatal.type = "AttributeError" /\ attempts = <<>>)

\* the configurations the validation has to refuse: production (in any
\* letter case) with the development secret key, a port outside 1..65535,
\* fewer than one worker
InvalidConfig(c) ==
  \/ /\ c.ENVIRONMENT \in {"production", "Production", "PRODUCTION"}
     /\ c.SECRET_KEY = "dev-secret-key-change-in-production"
  \/ c.API_PORT \notin 1..65535
  \/ c.API_WORKERS < 1

\* C16: Config.validate raises ValueError exactly for production with the
\* development secret key, a port outside 1..65535 or a worker count below
\* 1; for every other configuration it returns without error; it changes
\* no configuration value.
C16_ValidateRaisesExactly ==
  [][(pc = "boot" /\ pc' # "boot") =>
        /\ InvalidConfig(config) <=> fatal'.type = "ValueError"
        /\ InvalidConfig(config) => pc' = "exited"
        /\ ~InvalidConfig(config) => (fatal' = NoError /\ pc' = "resolve")
        /\ config' = config]_vars

C16_Witness ==
  /\ pc = "exited"
  /\ fatal.type = "ValueError"
  /\ fatal.text = <<"Invalid API_PORT">>
  /\ config.API_PORT = 65536
  /\ config.API_WORKERS = 4

\* C17: at startup the validation runs before the resolution: with a
\* configuration the validation refuses, the startup ends with the
\* ValueError, no source (local path, registry, experiment run) is ever
\* attempted or contacted, and the handle stays null.
C17_ValidationBeforeResolution ==
  InvalidConfig(config)
    => /\ pc \in {"boot", "exited", "serving"}
       /\ pc = "exited" => fatal.type = "ValueError"
       /\ fatal.type = "ValueError" => pc = "exited"
       /\ attempts = <<>>
       /\ contacted = {}
       /\ succeeded = {}
       /\ writes = 0
       /\ model = None

C17_Witness ==
  /\ InvalidConfig(config)
  /\ config.has_resolver_fields
  /\ config.MODEL_LOCAL_PATH # NoPath
  /\ pc = "exited"
  /\ fatal.type = "ValueError"
  /\ model = None

\* C18: every failure response of POST /predict (model not loaded, decode
\* failure, inference failure) has a 4xx or 5xx status and carries both a
\* detail field and an error_type field.
C18_FailureCarriesErrorType ==
  (response.endpoint = "predict" /\ response.code # 200)
    => /\ response.code \in 400..599
       /\ "detail" \in DOMAIN response
       /\ "error_type" \in DOMAIN response

\* C19: every successful prediction response carries a probability vector
\* of exactly 10 elements, a prediction in 0..9 that is the index of a
\* maximum element of the vector, and a confidence equal to that element.
C19_ResponseShape ==
  (response.endpoint = "predict" /\ response.code = 200)
    => /\ Len(response.probabilities) = 10
       /\ response.prediction \in 0..9
       /\ \A j \in 1..Len(response.probabilities) :
            response.probabilities[j]
              <= response.probabilities[response.prediction + 1]
       /\ response.confidence = response.probabilities[response.prediction + 1]

C19_Witness ==
  /\ response.endpoint = "predict"
  /\ response.code = 200
  /\ response.prediction = 7
  /\ response.confidence = 91
  /\ Len(response.probabilities) = 10

\* C20: each successful prediction adds exactly one to the prediction
\* counter under (current version tag, predicted class) and to no other
\* label, sets the confidence gauge to the confidence of that prediction,
\* records one latency observation and increments no error counter.
C20_SuccessMetrics ==
  [][(PredictStep /\ response'.code = 200) =>
        /\ Count(prediction_counter', <<model_version, response'.prediction>>)
             = Count(prediction_counter, <<model_version, response'.prediction>>) + 1
        /\ \A k \in (DOMAIN prediction_counter \cup DOMAIN prediction_counter')
                      \ {<<model_version, response'.prediction>>} :
             Count(prediction_counter', k) = Count(prediction_counter, k)
        /\ model_confidence' = response'.confidence
        /\ latency_obs' = latency_obs + 1
        /\ prediction_errors' = prediction_errors]_vars

C20_Witness ==
  /\ response.endpoint = "predict"
  /\ response.code = 200
  /\ model_version # Unknown
  /\ Count(prediction_counter, <<model_version, response.prediction>>) = 2
  /\ model_confidence = response.confidence
  /\ latency_obs = 2
  /\ prediction_errors = <<>>

\* C21: GET /health and GET /api/info are read-only: serving either leaves
\* the handle, the version tag and the configuration unchanged and starts
\* no model load (no source attempted, no service contacted, no write).
C21_ReadOnlyEndpoints ==
  [][(pc = "serving" /\ served' = served + 1
      /\ response'.endpoint \in {"health", "info"}) =>
        /\ model' = model
        /\ model_version' = model_version
        /\ config' = config
        /\ attempts' = attempts
        /\ contacted' = contacted
        /\ writes' = writes]_vars

C21_Witness ==
  /\ model = None
  /\ response.endpoint = "health"
  /\ response.status = "unhealthy"
  /\ served = 2
  /\ attempts = <<>>

\* C22: for a payload with at least one comma the normalizer decodes
\* exactly what follows the first comma, dropping nothing after it; a
\* payload without a comma is decoded whole.
C22_DecodesAfterFirstComma ==
  (response.endpoint = "predict" /\ decodes > 0 /\ response.code # 503)
    => IF Len(request) > 1
         THEN <<ImageData(request)>> = Tail(request)
         ELSE <<ImageData(request)>> = request

(* ==================== properties of the normalizers ===================== *)
\* C23: for every decodable image, whatever its size and colour depth, both
\* request normalizers (the non-inverting one of main.py and the inverting
\* one of app.py) yield a tensor of shape (1, 28, 28, 1) whose elements are
\* integers 0..255 divided by 255, so 0 <= x <= 1 for every element.
C23_TensorShapeAndRange ==
  tensor.by \in {"api", "flask"}
    => /\ tensor.ok
       /\ tensor.shape = <<1, 28, 28, 1>>
       /\ tensor.den = 255
       /\ tensor.lo \in 0..255
       /\ tensor.hi \in 0..255
       /\ tensor.lo <= tensor.hi

C23_Witness ==
  /\ tensor.by = "flask"
  /\ image_in.image.mode = "I;16"
  /\ image_in.image.size = <<64, 32>>
  /\ image_in.image.hi = 65535
  /\ tensor.shape = <<1, 28, 28, 1>>
  /\ tensor.lo = 0

\* C24: a 28x28 solid-gray bitmap of value g, encoded to base64 and
\* normalized, gives a tensor whose every element is g/255 without
\* inversion (main.py) and (255-g)/255 with inversion (app.py), for every
\* g in 0..255.
C24_SolidGrayRoundTrip ==
  \A g \in 0..255 :
    (tensor.by \in {"api", "flask"} /\ image_in.image = [mode |-> "L",
                                                         size |-> <<28, 28>>,
                                                         lo |-> g, hi |-> g])
      => /\ tensor.ok
         /\ tensor.den = 255
         /\ tensor.lo = tensor.hi
         /\ tensor.by = "api" => tensor.lo = g
         /\ tensor.by = "flask" => tensor.lo = 255 - g

C24_Witness ==
  /\ tensor.by = "flask"
  /\ image_in.image.mode = "L"
  /\ image_in.image.size = <<28, 28>>
  /\ image_in.image.lo = 200
  /\ image_in.image.hi = 200
  /\ image_in.dataurl
  /\ tensor.lo = 55
  /\ tensor.hi = 55

\* C25: loader.preprocess_image accepts exactly the shapes (28, 28) and
\* (28, 28, 1): for these it returns shape (1, 28, 28, 1) with the input
\* pixels divided by 255 (all-255 gives all 1, every value in [0, 1]); for
\* every other shape it raises ValueError "Invalid image shape" and
\* returns nothing.
C25_LoaderShapes ==
  tensor.by = "loader"
    => IF image_in.shape = <<28, 28>> \/ image_in.shape = <<28, 28, 1>>
         THEN /\ tensor.ok
              /\ tensor.shape = <<1, 28, 28, 1>>
              /\ tensor.den = 255
              /\ tensor.lo = image_in.lo
              /\ tensor.hi = image_in.hi
              /\ 0 <= tensor.lo /\ tensor.hi <= tensor.den
              /\ image_in.lo = 255 => (tensor.lo = tensor.den /\ tensor.hi = tensor.den)
         ELSE /\ ~tensor.ok
              /\ tensor.exc.type = "ValueError"
              /\ tensor.exc.text[1] = "Invalid image shape: "
              /\ DOMAIN tensor = {"ok", "by", "exc"}

C25_Witness ==
  /\ tensor.by = "loader"
  /\ image_in.shape = <<32, 32>>
  /\ ~tensor.ok
  /\ tensor.exc.type = "ValueError"

(* ================== further properties of the services ================== *)
\* C26: whenever load_model_from_registry has ended by raising, the handle
\* and the version tag have the values they had before the call: a handle
\* that was null is still null and the tag is still "unknown".
C26_FailedResolutionLeavesHandle ==
  (pc = "exited" /\ fatal.type = "RuntimeError")
    => (model = None /\ model_version = Unknown)

\* C27: one POST /predict is counted as a prediction or as an error, never
\* as both: no request adds to the prediction counter and to the error
\* counter, also when the model returns a vector that has not 10 elements.
C27_PredictionOrError ==
  [][PredictStep =>
       ~(prediction_counter' # prediction_counter
         /\ prediction_errors' # prediction_errors)]_vars

\* C28: under any interleaving of requests the active_requests gauge equals
\* the number of requests inside the middleware: one increment on entry,
\* one decrement on exit on every path, also when the handler raises; it is
\* never negative and is zero when no request is in flight.
C28_GaugeCountsInFlight ==
  /\ active_requests = Cardinality({r \in DOMAIN in_flight : in_flight[r] = "handler"})
  /\ active_requests >= 0
  /\ (\A r \in DOMAIN in_flight : in_flight[r] # "handler") => active_requests = 0

C28_Witness ==
  /\ active_requests = 1
  /\ \E r, q, u \in DOMAIN in_flight :
       /\ in_flight[r] = "raised"
       /\ in_flight[q] = "handler"
       /\ in_flight[u] = "answered"

(* =================== properties of the Flask application ================ *)
\* C29: every call of the Flask load_model tries the registry Production
\* stage, then the best run, then ./saved_model, in that order; a later
\* source is tried only while no earlier one has loaded; the call returns
\* the model of the first source that loads; when none loads it raises
\* having assigned nothing, so at startup the global remains None.
C29_FlaskLoadOrder ==
  \A t \in DOMAIN flask_thread :
    LET th == flask_thread[t]
        n == Len(th.tried)
    IN  /\ n <= 3
        /\ \A i \in 1..n : th.tried[i] = <<"registry", "run", "local">>[i]
        /\ th.pc = "load_registry" => n = 0
        /\ th.pc = "load_runs" => (n = 1 /\ th.loaded = {})
        /\ th.pc = "load_local" => (n = 2 /\ th.loaded = {})
        /\ th.loaded # {} =>
             /\ th.loaded = {th.tried[n]}
             /\ th.ret # None
             /\ th.ret.src = th.tried[n]
             /\ th.pc \notin {"load_registry", "load_runs", "load_local"}
        /\ (n = 3 /\ th.loaded = {}) =>
             /\ th.ret = None
             /\ flask_writes[t] = 0
             /\ (t = 0 /\ flask_started = 0) => flask_model = None

C29_Witness ==
  /\ flask_thread[0].tried = <<"registry", "run", "local">>
  /\ flask_thread[0].loaded = {}
  /\ \E t \in DOMAIN flask_thread :
       /\ flask_thread[t].tried = <<"registry", "run">>
       /\ flask_thread[t].loaded = {"run"}
       /\ flask_thread[t].ret = [src |-> "run", id |-> "r2"]

\* C30: in the Flask /predict handler a request with a missing or empty
\* image is answered 400 before any preprocessing or model load; for a
\* non-empty image load_model is called only after preprocess_image has
\* returned; a request that fails at either point leaves the global model
\* unchanged.
C30_FlaskPredictOrder ==
  [][\A t \in DOMAIN flask_thread' \ {0} :
       LET th == flask_thread'[t]
           failed_early == th.pc = "idle" /\ th.code \in {400, 500}
                           /\ "load_model" \notin Range(th.calls)
                           /\ "model.predict" \notin Range(th.calls)
       IN  /\ th.image_empty => (th.code = 400 /\ th.calls = <<>> /\ th.tried = <<>>)
           /\ th.code = 400 => th.image_empty
           /\ (~th.image_empty /\ ~th.image_decodes /\ th.calls # <<>>)
                => (th.code = 500 /\ th.calls = <<"preprocess_image">>
                    /\ th.tried = <<>>)
           /\ (\E i \in 1..Len(th.calls) : th.calls[i] = "load_model")
                => (th.calls[1] = "preprocess_image" /\ th.image_decodes)
           /\ th.tried # <<>> => "load_model" \in Range(th.calls)
           /\ (failed_early /\ th # flask_thread[t]) => flask_model' = flask_model]_vars

C30_Witness ==
  \E t, u \in DOMAIN flask_thread \ {0} :
    /\ flask_thread[t].code = 400
    /\ flask_thread[t].image_empty
    /\ flask_thread[u].code = 500
    /\ ~flask_thread[u].image_decodes
    /\ flask_thread[u].calls = <<"preprocess_image">>
    /\ flask_model = None
====
